---- MODULE Spec2Model ----
\* A model of src/MIDI.js: the Note class, the MIDI event target with its
\* _noteon/_noteoff listeners, initialize() with the raw midimessage listener
\* and the periodic flush started by setInterval.
\*
\* Objects are modelled by reference: `heap` holds every Note ever constructed,
\* and the log, the registry (`notes`), the buffer, the outstanding batches and
\* the event payloads hold indices into it (a Note's index is its _no + 1).
\*
\* The flush callback of src/MIDI.js:147 uses `await` although it is not
\* declared async; it is modelled as the async callback it is written to be:
\* it runs synchronously up to the fetch, and resumes when the fetch settles.
EXTENDS Integers, Sequences, FiniteSets, TLC

\* ---------------------------------------------------------------- bounds
\* Notes constructed in one run (the counter _no stays below it).
MaxNotes == 2
\* The clock Date.now() runs over 0..MaxTime.
MaxTime == 1
\* requestMIDIAccess() promises outstanding at one time, when initialize() is
\* called again before a request has resolved (CallsSpec).
MaxInit == 2

\* ------------------------------------------------------- program constants
NOTE_OFF == 8
NOTE_ON == 9

\* The instrument's keys and the raw MIDI messages the input device sends:
\* a status byte (0x80 note off, 0x90 note on, 0xB0 control change), a key
\* and a velocity.
Keys == {60, 61}
StatusBytes == {128, 144, 176}
RawVelocities == {0, 80}
Messages == {<<s, k, v>> : s \in StatusBytes, k \in Keys, v \in RawVelocities}

\* null / undefined, where a reference to a Note is expected
Null == 0

VARIABLES
    now,          \* the clock read by Date.now()
    heap,         \* every Note constructed so far, by reference
    notes,        \* MIDI.notes: the Map key -> Note of the active notes
    log,          \* MIDI.log
    _buffer,      \* MIDI._buffer
    _midiAccess,  \* MIDI._midiAccess is set (TRUE) or null (FALSE)
    requests,     \* requestMIDIAccess() promises not yet settled
    listeners,    \* midimessage listeners attached to the input
    intervals,    \* setInterval timers running the flush callback
    fetches,      \* the batches (const buffer) of the suspended flush callbacks
    sent,         \* the batches the sink answered with an ok response
    down,         \* history: keys with a _noteon and no later _noteoff
    released,     \* history: the notes frozen so far, in the order they were frozen
    keydowns      \* history: the number of _noteon events dispatched

vars ==
    <<now, heap, notes, log, _buffer, _midiAccess, requests, listeners,
      intervals, fetches, sent, down, released, keydowns>>

\* ------------------------------------------------------------------ Note
\* new Note(key, velocity, timestamp) when the counter _no is no: _id is
\* `${_TIMESTAMP}.${_no++}`, of which the part _TIMESTAMP is the same for all
\* the Notes of a run. _duration null is the empty sequence, a set _duration
\* is the one-element sequence holding it.
Note(key, velocity, timestamp, no) ==
    [_id |-> no, key |-> key, velocity |-> velocity, timestamp |-> timestamp,
     _duration |-> <<>>]

\* get duration(), read when Date.now() is t
Note_duration(note, t) ==
    IF note._duration = <<>> THEN t - note.timestamp ELSE note._duration[1]

\* get playing()
Note_playing(note) == note._duration = <<>>

\* toJSON(), called when Date.now() is t. `id: this.id` reads a property the
\* class does not define (the constructor sets _id): it is undefined, the
\* empty sequence here, a defined id being a one-element sequence.
toJSON(note, t) ==
    [id |-> <<>>, key |-> note.key, velocity |-> note.velocity,
     timestamp |-> note.timestamp, duration |-> Note_duration(note, t)]

\* ------------------------------------------------------------------- MIDI
\* Map operations on the registry
MapHas(map, key) == key \in DOMAIN map
MapGet(map, key) == IF key \in DOMAIN map THEN map[key] ELSE Null
MapSet(map, key, value) ==
    [k \in DOMAIN map \cup {key} |-> IF k = key THEN value ELSE map[k]]
MapDelete(map, key) == [k \in DOMAIN map \ {key} |-> map[k]]

\* new CustomEvent(type, {detail}) as dispatched to the observers
CustomEvent(type, detail) == [type |-> type, detail |-> detail]

\* The object state a listener works on, with what the listeners put out:
\* events, the public events dispatched to the observers, thrown, the
\* exceptions a listener ended with, and signals, the _noteon/_noteoff events
\* the midimessage listeners dispatched.
Self ==
    [heap |-> heap, notes |-> notes, log |-> log, _buffer |-> _buffer,
     events |-> <<>>, thrown |-> <<>>, signals |-> <<>>,
     down |-> down, released |-> released, keydowns |-> keydowns]

\* A listener's run is the sequence of the object's states after each of its
\* statements; the last of them is the object the listener leaves.
Last(tr) == tr[Len(tr)]

\* noteon_trace with beforenoteon dispatched after the log push.
noteon_late(m, detail) ==
    LET note == Len(m.heap) + 1
        s1 == [m EXCEPT !.heap = Append(@, Note(detail.key, detail.velocity,
                                                 detail.timestamp, Len(m.heap)))]
        s2 == [s1 EXCEPT !.log = Append(@, note)]
        s3 == [s2 EXCEPT !.events = Append(@, CustomEvent("beforenoteon", note))]
        s4 == [s3 EXCEPT !.notes = MapSet(@, detail.key, note)]
        s5 == [s4 EXCEPT !.events = Append(@, CustomEvent("noteon", note))]
    IN  <<s1, s2, s3, s4, s5>>

\* noteon_trace keeping the Note a key already has in the registry.
noteon_first(m, detail) ==
    LET note == Len(m.heap) + 1
        s1 == [m EXCEPT !.heap = Append(@, Note(detail.key, detail.velocity,
                                                 detail.timestamp, Len(m.heap)))]
        s2 == [s1 EXCEPT !.events = Append(@, CustomEvent("beforenoteon", note))]
        s3 == [s2 EXCEPT !.log = Append(@, note)]
        s4 == IF MapHas(s3.notes, detail.key) THEN s3
              ELSE [s3 EXCEPT !.notes = MapSet(@, detail.key, note)]
        s5 == [s4 EXCEPT !.events = Append(@, CustomEvent("noteon", note))]
    IN  <<s1, s2, s3, s4, s5>>

\* noteon_trace with the Note of a key that has one put in the log at the
\* place of the Note it replaces.
noteon_relog(m, detail) ==
    LET note == Len(m.heap) + 1
        s1 == [m EXCEPT !.heap = Append(@, Note(detail.key, detail.velocity,
                                                 detail.timestamp, Len(m.heap)))]
        s2 == [s1 EXCEPT !.events = Append(@, CustomEvent("beforenoteon", note))]
        s3 == IF MapHas(s2.notes, detail.key)
              THEN [s2 EXCEPT !.log = [i \in DOMAIN @ |->
                        IF @[i] = s2.notes[detail.key] THEN note ELSE @[i]]]
              ELSE [s2 EXCEPT !.log = Append(@, note)]
        s4 == [s3 EXCEPT !.notes = MapSet(@, detail.key, note)]
        s5 == [s4 EXCEPT !.events = Append(@, CustomEvent("noteon", note))]
    IN  <<s1, s2, s3, s4, s5>>

\* The '_noteon' listener statement by statement: the object after the Note
\* is constructed (1), after beforenoteon is dispatched (2), after the log
\* push (3), after the registry set (4) and after noteon is dispatched (5).
noteon_trace(m, detail) ==
    LET note == Len(m.heap) + 1
        s1 == [m EXCEPT !.heap = Append(@, Note(detail.key, detail.velocity,
                                                 detail.timestamp, Len(m.heap)))]
        s2 == [s1 EXCEPT !.events = Append(@, CustomEvent("beforenoteon", note))]
        s3 == [s2 EXCEPT !.log = Append(@, note)]
        s4 == [s3 EXCEPT !.notes = MapSet(@, detail.key, note)]
        s5 == [s4 EXCEPT !.events = Append(@, CustomEvent("noteon", note))]
    IN  <<s1, s2, s3, s4, s5>>

\* the '_noteon' listener
noteon(m, detail) == Last(noteon_trace(m, detail))

\* noteoff_trace with the registry delete before beforenoteoff is dispatched.
noteoff_early(m, detail, t) ==
    LET note == MapGet(m.notes, detail.key)
        s1 == [m EXCEPT !.heap[note]._duration = <<Note_duration(m.heap[note], t)>>]
        s2 == [s1 EXCEPT !._buffer = Append(@, note)]
        s3 == [s2 EXCEPT !.notes = MapDelete(@, detail.key)]
        s4 == [s3 EXCEPT !.events = Append(@, CustomEvent("beforenoteoff", Null))]
        s5 == [s4 EXCEPT !.events = Append(@, CustomEvent("noteoff", note))]
    IN  IF note = Null
        THEN <<[m EXCEPT !.thrown = Append(@, "TypeError")]>>
        ELSE <<s1, s2, s3, s4, s5>>

\* noteoff_trace with the freeze `note._duration = note.duration` lost.
noteoff_playing(m, detail, t) ==
    LET note == MapGet(m.notes, detail.key)
        s1 == m
        s2 == [s1 EXCEPT !._buffer = Append(@, note)]
        s3 == [s2 EXCEPT !.events = Append(@, CustomEvent("beforenoteoff", Null))]
        s4 == [s3 EXCEPT !.notes = MapDelete(@, detail.key)]
        s5 == [s4 EXCEPT !.events = Append(@, CustomEvent("noteoff", note))]
    IN  IF note = Null
        THEN <<[m EXCEPT !.thrown = Append(@, "TypeError")]>>
        ELSE <<s1, s2, s3, s4, s5>>

\* The '_noteoff' listener statement by statement; t is what Date.now()
\* returns inside the duration getter. With no Note registered for the key,
\* note is undefined and reading note.duration throws a TypeError before
\* anything is changed. Else: the object after the freeze (1), after the
\* buffer push (2), after beforenoteoff is dispatched (3), after the registry
\* delete (4) and after noteoff is dispatched (5).
noteoff_trace(m, detail, t) ==
    LET note == MapGet(m.notes, detail.key)
        s1 == [m EXCEPT !.heap[note]._duration = <<Note_duration(m.heap[note], t)>>]
        s2 == [s1 EXCEPT !._buffer = Append(@, note)]
        \* dispatchEvent(new CustomEvent('beforenoteoff'), {detail: note}):
        \* the detail is handed to dispatchEvent, the event carries none
        s3 == [s2 EXCEPT !.events = Append(@, CustomEvent("beforenoteoff", Null))]
        s4 == [s3 EXCEPT !.notes = MapDelete(@, detail.key)]
        s5 == [s4 EXCEPT !.events = Append(@, CustomEvent("noteoff", note))]
    IN  IF note = Null
        THEN <<[m EXCEPT !.thrown = Append(@, "TypeError")]>>
        ELSE <<s1, s2, s3, s4, s5>>

\* noteoff with this.notes.delete(key) lost: the Note stays registered.
noteoff_keeps(m, detail, t) ==
    LET tr == noteoff_trace(m, detail, t)
    IN  IF Len(tr) = 1 THEN tr[1]
        ELSE [tr[5] EXCEPT !.notes = m.notes]

\* the '_noteoff' listener
noteoff(m, detail, t) == Last(noteoff_trace(m, detail, t))

Max(a, b) == IF a > b THEN a ELSE b

\* The notes whose duration a step from heap h1 to heap h2 has frozen.
Frozen(h1, h2) ==
    {n \in 1..Len(h1) : h1[n]._duration = <<>> /\ h2[n]._duration # <<>>}

RECURSIVE SetToSeq(_)
SetToSeq(S) ==
    IF S = {} THEN <<>>
    ELSE LET x == CHOOSE y \in S : \A z \in S : y <= z
         IN  <<x>> \o SetToSeq(S \ {x})

\* The history of a signal: r is the object m after the signal's listener.
Signalled(m, r, type, detail) ==
    [r EXCEPT
        !.signals = Append(@, [type |-> type, key |-> detail.key,
                               velocity |-> detail.velocity,
                               timestamp |-> detail.timestamp]),
        !.keydowns = IF type = "_noteon" THEN @ + 1 ELSE @,
        !.down = IF type = "_noteon" THEN @ \cup {detail.key}
                 ELSE @ \ {detail.key},
        !.released = @ \o SetToSeq(Frozen(m.heap, r.heap))]

\* this.dispatchEvent(new CustomEvent('_noteon' | '_noteoff', {detail})):
\* runs the listener, and records the signal in the history variables.
dispatchEvent(m, type, detail, t) ==
    Signalled(m, IF type = "_noteon" THEN noteon(m, detail) ELSE noteoff(m, detail, t),
              type, detail)

\* The raw message as the 'midimessage' listener parses it: the velocity, and
\* the command, a velocity of 0 making any message a NOTE_OFF.
Velocity(data) == IF Len(data) > 2 THEN data[3] ELSE 1
Command(data) == IF Velocity(data) = 0 THEN NOTE_OFF ELSE data[1] \div 16

\* the 'midimessage' listener on raw message data; t1 is what Date.now()
\* returns for the signal's timestamp, t2 what it returns in the listener
\* the signal is dispatched to.
midimessage(m, data, t1, t2) ==
    LET key == data[2]
    IN  IF Command(data) = NOTE_ON
        THEN dispatchEvent(m, "_noteon",
                [key |-> key, velocity |-> Max(1, Velocity(data)), timestamp |-> t1], t2)
        ELSE IF Command(data) = NOTE_OFF
        THEN dispatchEvent(m, "_noteoff",
                [key |-> key, velocity |-> 0, timestamp |-> t1], t2)
        ELSE m

\* The input delivers one raw message to each of its n midimessage listeners
\* in turn. The clock may advance from t1 to t2 while the first one runs.
RECURSIVE Deliver(_, _, _, _, _)
Deliver(m, data, n, t1, t2) ==
    IF n = 0 THEN m
    ELSE Deliver(midimessage(m, data, t1, t2), data, n - 1, t2, t2)

\* Whether a raw message makes its listener dispatch '_noteon' (KeyDown), and
\* whether '_noteoff' (KeyUp).
IsNoteOn(data) == Command(data) = NOTE_ON
IsNoteOff(data) == Command(data) = NOTE_OFF

\* ---------------------------------------------------------------- actions
Init ==
    /\ now = 0
    /\ heap = <<>>
    /\ notes = <<>>
    /\ log = <<>>
    /\ _buffer = <<>>
    /\ _midiAccess = FALSE
    /\ requests = 0
    /\ listeners = 0
    /\ intervals = 0
    /\ fetches = <<>>
    /\ sent = <<>>
    /\ down = {}
    /\ released = <<>>
    /\ keydowns = 0

\* Time passes.
Advance ==
    /\ now < MaxTime
    /\ now' = now + 1
    /\ UNCHANGED <<heap, notes, log, _buffer, _midiAccess, requests, listeners,
                   intervals, fetches, sent, down, released, keydowns>>

\* initialize(), in an environment that has navigator.requestMIDIAccess,
\* with at most n requests outstanding
initialize(n) ==
    /\ ~_midiAccess
    /\ requests < n
    /\ requests' = requests + 1
    /\ UNCHANGED <<now, heap, notes, log, _buffer, _midiAccess, listeners,
                   intervals, fetches, sent, down, released, keydowns>>

\* initialize() called while no request is outstanding: the calls of Spec do
\* not overlap. A call may follow a rejected request.
Initialize == initialize(1)

\* requestMIDIAccess() resolves: the callback of then(), for one input
\* (it also dispatches 'midiaccess', which nothing in the object listens to)
AccessGranted ==
    /\ requests > 0
    /\ requests' = requests - 1
    /\ _midiAccess' = TRUE
    /\ listeners' = listeners + 1
    /\ intervals' = intervals + 1
    /\ UNCHANGED <<now, heap, notes, log, _buffer, fetches, sent, down, released, keydowns>>

\* requestMIDIAccess() rejects: console.log
AccessDenied ==
    /\ requests > 0
    /\ requests' = requests - 1
    /\ UNCHANGED <<now, heap, notes, log, _buffer, _midiAccess, listeners,
                   intervals, fetches, sent, down, released, keydowns>>

\* The input device sends one raw message.
MidiMessage(data) ==
    /\ listeners > 0
    /\ IsNoteOn(data) => Len(heap) + listeners <= MaxNotes
    /\ \E t2 \in now..Max(now, IF now < MaxTime THEN now + 1 ELSE now) :
        \E m \in {Deliver(Self, data, listeners, now, t2)} :
            /\ now' = t2
            /\ heap' = m.heap
            /\ notes' = m.notes
            /\ log' = m.log
            /\ _buffer' = m._buffer
            /\ down' = m.down
            /\ released' = m.released
            /\ keydowns' = m.keydowns
    /\ UNCHANGED <<_midiAccess, requests, listeners, intervals, fetches, sent>>

\* Tick with `this._buffer = []` lost: the batch handed to fetch stays the
\* array the releases are pushed to.
Tick_keeps ==
    /\ intervals > 0
    /\ IF Len(_buffer) > 0
       THEN /\ fetches' = Append(fetches, _buffer)
            /\ _buffer' = _buffer
       ELSE UNCHANGED <<fetches, _buffer>>
    /\ UNCHANGED <<now, heap, notes, log, _midiAccess, requests, listeners,
                   intervals, sent, down, released, keydowns>>

\* One timer fires: the flush callback up to its fetch.
Tick ==
    /\ intervals > 0
    /\ IF Len(_buffer) > 0
       THEN /\ fetches' = Append(fetches, _buffer)
            /\ _buffer' = <<>>
       ELSE UNCHANGED <<fetches, _buffer>>
    /\ UNCHANGED <<now, heap, notes, log, _midiAccess, requests, listeners,
                   intervals, sent, down, released, keydowns>>

Remove(seq, i) == SubSeq(seq, 1, i - 1) \o SubSeq(seq, i + 1, Len(seq))

\* resume with the test of response.ok lost: the batch is put back after a
\* success too.
resume_always(buffer, pending, ok) == buffer \o pending

\* The flush callback after its fetch: what it makes of this._buffer
\* (pending) when the fetch of its batch (buffer) resolved with response.ok = ok.
resume(buffer, pending, ok) ==
    IF ~ok THEN buffer \o pending ELSE pending

\* The fetch of the i-th outstanding batch resolves with an ok response: the
\* sink has the batch.
RespondOk(i) ==
    /\ i \in 1..Len(fetches)
    /\ sent' = Append(sent, fetches[i])
    /\ _buffer' = resume(fetches[i], _buffer, TRUE)
    /\ fetches' = Remove(fetches, i)
    /\ UNCHANGED <<now, heap, notes, log, _midiAccess, requests, listeners,
                   intervals, down, released, keydowns>>

\* It resolves with a response that is not ok (a non-2xx status).
RespondNotOk(i) ==
    /\ i \in 1..Len(fetches)
    /\ _buffer' = resume(fetches[i], _buffer, FALSE)
    /\ fetches' = Remove(fetches, i)
    /\ UNCHANGED <<now, heap, notes, log, _midiAccess, requests, listeners,
                   intervals, sent, down, released, keydowns>>

\* It rejects (a network failure): await throws, the callback ends there,
\* before the test of response.ok, and nothing handles its rejected promise.
FetchRejects(i) ==
    /\ i \in 1..Len(fetches)
    /\ fetches' = Remove(fetches, i)
    /\ UNCHANGED <<now, heap, notes, log, _buffer, _midiAccess, requests,
                   listeners, intervals, sent, down, released, keydowns>>

Next ==
    \/ Advance
    \/ Initialize
    \/ AccessGranted
    \/ AccessDenied
    \/ \E data \in Messages : MidiMessage(data)
    \/ Tick
    \/ \E i \in 1..MaxNotes : RespondOk(i)
    \/ \E i \in 1..MaxNotes : RespondNotOk(i)
    \/ \E i \in 1..MaxNotes : FetchRejects(i)

Spec == Init /\ [][Next]_vars

\* The same program with initialize() called again while requests are
\* outstanding: up to MaxInit requests at a time.
InitializeAgain == initialize(MaxInit)

NextCalls ==
    \/ Advance
    \/ InitializeAgain
    \/ AccessGranted
    \/ AccessDenied
    \/ \E data \in Messages : MidiMessage(data)
    \/ Tick
    \/ \E i \in 1..MaxNotes : RespondOk(i)
    \/ \E i \in 1..MaxNotes : RespondNotOk(i)
    \/ \E i \in 1..MaxNotes : FetchRejects(i)

CallsSpec == Init /\ [][NextCalls]_vars

\* get playing() of MIDI
MIDI_playing == Cardinality(DOMAIN notes) > 0

\* The flush under fair scheduling: a timer that is due fires, an outstanding
\* fetch settles, and the sink does not fail forever (it answers ok again and
\* again while there is something to answer).
Settle ==
    \E i \in 1..MaxNotes : RespondOk(i) \/ RespondNotOk(i) \/ FetchRejects(i)

LiveSpec ==
    /\ Spec
    /\ WF_vars(Tick)
    /\ WF_vars(Settle)
    /\ SF_vars(\E i \in 1..MaxNotes : RespondOk(i))

\* ------------------------------------------------------- delivery: terms
Range(seq) == {seq[i] : i \in DOMAIN seq}

RECURSIVE Flatten(_)
Flatten(batches) ==
    IF batches = <<>> THEN <<>> ELSE Head(batches) \o Flatten(Tail(batches))

NoDuplicates(seq) == \A i, j \in DOMAIN seq : seq[i] = seq[j] => i = j

InPending(n) == n \in Range(_buffer)
Outstanding(n) == \E i \in DOMAIN fetches : n \in Range(fetches[i])
Delivered(n) == \E i \in DOMAIN sent : n \in Range(sent[i])

\* The place of a released note in the order of release.
Rank(n) == CHOOSE i \in DOMAIN released : released[i] = n

Ordered(seq) ==
    \A i, j \in DOMAIN seq : i < j => Rank(seq[i]) < Rank(seq[j])

\* ------------------------------------------------------------- the claims

\* C1: every note that has been released is in the buffer, or in a batch
\* whose transmission is outstanding, or in a batch the sink has accepted,
\* whatever the transmissions' outcomes were.
C1_NoCompletedNoteLost ==
    \A n \in Range(released) : InPending(n) \/ Outstanding(n) \/ Delivered(n)

\* C2: under fair scheduling, with a sink that stops failing, every released
\* note is eventually in a batch the sink has accepted.
C2_EventualDelivery ==
    \A n \in 1..MaxNotes : (n \in Range(released)) ~> Delivered(n)

\* C3: a note is at any time in at most one of the buffer, an outstanding
\* batch and the accepted batches, and in none of them twice: no note is in
\* two accepted batches, and an accepted note is never again in the buffer or
\* in a later batch.
C3_NoDuplication ==
    NoDuplicates(_buffer \o Flatten(fetches) \o Flatten(sent))

\* C3's case: the sink has accepted a batch while another released note waits
\* in the buffer or is on its way.
C3_Witness ==
    /\ Len(sent) > 0
    /\ Len(_buffer) + Len(fetches) > 0
    /\ Len(released) > 1

\* C4: the accepted notes are in release order, within a batch and across the
\* batches, and no accepted note was released after a note that still waits in
\* the buffer or in an outstanding batch.
C4_DeliveryOrder ==
    /\ Ordered(Flatten(sent))
    /\ \A n \in Range(Flatten(sent)) :
        \A o \in Range(_buffer \o Flatten(fetches)) : Rank(n) < Rank(o)

\* C5: whenever the transmission of a batch fails, by a response that is not
\* ok or by a rejected fetch, the buffer becomes the batch followed by the
\* buffer.
C5_RemergeOnFailure ==
    [][\A i \in 1..MaxNotes :
          (RespondNotOk(i) \/ FetchRejects(i)) => _buffer' = fetches[i] \o _buffer]_vars

\* C6: a KeyUp on an active key freezes the Note's duration to the KeyUp's
\* timestamp (what Date.now() gave the 'midimessage' listener) less the
\* Note's timestamp, and leaves the Note not playing, its key, velocity and
\* timestamp as they were.
C6_DurationIsTimestampDifference ==
    [][\A data \in Messages :
          (MidiMessage(data) /\ IsNoteOff(data) /\ MapHas(notes, data[2])) =>
              LET note == notes[data[2]]
              IN  /\ heap'[note]._duration = <<now - heap[note].timestamp>>
                  /\ ~Note_playing(heap'[note])
                  /\ heap'[note].key = heap[note].key
                  /\ heap'[note].velocity = heap[note].velocity
                  /\ heap'[note].timestamp = heap[note].timestamp]_vars

\* C7: a frozen Note stays as it is, so that its duration reads the same at
\* any later time and it never plays again; and the step that freezes a Note
\* freezes no more than the time from its timestamp to the release event.
C7_FreezeOnce ==
    [][\A n \in 1..Len(heap) :
          /\ ~Note_playing(heap[n]) =>
                /\ ~Note_playing(heap'[n])
                /\ Note_duration(heap'[n], now') = Note_duration(heap[n], now)
          /\ (Note_playing(heap[n]) /\ ~Note_playing(heap'[n])) =>
                Note_duration(heap'[n], now') <= now - heap[n].timestamp]_vars

\* C8: a key is in the registry exactly if it had a KeyDown and no KeyUp
\* since; the Note registered for a key is a Note of that key; and the MIDI
\* object is playing exactly if some key is down.
C8_RegistryInvariant ==
    /\ \A k \in Keys : MapHas(notes, k) <=> k \in down
    /\ \A k \in DOMAIN notes :
        notes[k] \in 1..Len(heap) /\ heap[notes[k]].key = k
    /\ MIDI_playing <=> down # {}

\* C8's case: a key is down while the note of another key has been released.
C8_Witness ==
    \E k \in down : \E n \in Range(released) : heap[n].key # k

\* C9: in every state, a KeyUp for a key with no active note throws nothing
\* and leaves the registry, the log, the buffer and the Notes as they are.
C9_UnmatchedKeyUpIsNoOp ==
    listeners > 0 =>
        \A data \in Messages :
            (IsNoteOff(data) /\ ~MapHas(notes, data[2])) =>
                LET m == midimessage(Self, data, now, now)
                IN  /\ m.thrown = <<>>
                    /\ m.heap = heap
                    /\ m.notes = notes
                    /\ m.log = log
                    /\ m._buffer = _buffer

\* C10: in every state, each public event the reaction to a raw message
\* dispatches has as its detail the Note the message concerns: the Note
\* constructed for a KeyDown, the Note registered for the key of a KeyUp.
C10_NotificationsCarryNote ==
    listeners > 0 =>
        \A data \in Messages :
            LET m == midimessage(Self, data, now, now)
                concerned == IF IsNoteOn(data) THEN Len(heap) + 1
                             ELSE MapGet(notes, data[2])
            IN  \A i \in DOMAIN m.events :
                    concerned # Null /\ m.events[i].detail = concerned

\* The notes of the batches handed to fetch, accepted or not yet answered.
Transmitted == Range(Flatten(fetches) \o Flatten(sent))

\* C11: any two Notes have different identifiers, and the serialization view
\* of every Note of a transmitted batch exposes the Note's identifier: the
\* view's id is defined, and two different transmitted Notes have views with
\* different ids.
C11_UniqueIdsExposed ==
    /\ \A a, b \in DOMAIN heap : a # b => heap[a]._id # heap[b]._id
    /\ \A a, b \in Transmitted :
        /\ toJSON(heap[a], now).id = <<heap[a]._id>>
        /\ a # b => toJSON(heap[a], now).id # toJSON(heap[b], now).id

\* C12: a tick that finds the buffer non-empty hands the whole buffer to
\* fetch as one batch and leaves the buffer empty, in the same step; no step
\* changes the contents of a batch whose transmission is outstanding; and a
\* note released while a transmission is outstanding is put at the end of the
\* buffer and into no outstanding batch.
C12_AtomicDetach ==
    [][/\ (Tick /\ _buffer # <<>>) =>
            fetches' = Append(fetches, _buffer) /\ _buffer' = <<>>
       /\ \A i \in DOMAIN fetches' :
            \/ \E j \in DOMAIN fetches : fetches'[i] = fetches[j]
            \/ /\ i = Len(fetches')
               /\ Len(fetches') = Len(fetches) + 1
               /\ fetches'[i] = _buffer
               /\ _buffer' = <<>>
       /\ Len(fetches') >= Len(fetches) =>
            \A j \in DOMAIN fetches : fetches'[j] = fetches[j]
       /\ \A n \in Frozen(heap, heap') :
            /\ _buffer' = Append(_buffer, n)
            /\ fetches' = fetches
            /\ \A i \in DOMAIN fetches' : n \notin Range(fetches'[i])
      ]_vars

\* C12's case: a note has been released, and is in the buffer, while the
\* transmission of an earlier batch is outstanding.
C12_Witness ==
    /\ Len(fetches) > 0
    /\ Len(_buffer) > 0
    /\ \A n \in Range(_buffer) : \A i \in DOMAIN fetches :
        \A o \in Range(fetches[i]) : Rank(o) < Rank(n)

\* C13: in every reachable state the buffer holds its notes in the order in
\* which they were released, whatever the interleaving of releases, ticks and
\* outcomes, ticks during an outstanding transmission included.
C13_PendingOrder == Ordered(_buffer)

\* The _noteon and _noteoff signals a midimessage listener can dispatch in
\* the present state.
KeyDowns ==
    {[key |-> k, velocity |-> Max(1, v), timestamp |-> now] :
        k \in Keys, v \in RawVelocities}
KeyUps == {[key |-> k, velocity |-> 0, timestamp |-> now] : k \in Keys}

\* The place in a listener's trace where the public event of a type has just
\* been dispatched.
At(tr, type) ==
    CHOOSE i \in DOMAIN tr :
        /\ tr[i].events # <<>>
        /\ Last(tr[i].events).type = type
        /\ (i > 1 => Len(tr[i - 1].events) < Len(tr[i].events))

\* What C14 says of tr, the run of the _noteon listener on the present state
\* for the signal detail.
KeyDownOrder(tr, detail) ==
    LET note == Len(heap) + 1
        b == At(tr, "beforenoteon")
        a == At(tr, "noteon")
        InLog(i) == note \in Range(tr[i].log)
        InRegistry(i) == MapGet(tr[i].notes, detail.key) = note
    IN  /\ note \notin Range(tr[b].log)
        /\ \A k \in DOMAIN tr[b].notes : tr[b].notes[k] # note
        /\ tr[b].log = log /\ tr[b].notes = notes
        /\ b < a
        /\ \A i \in DOMAIN tr : InRegistry(i) => InLog(i)
        /\ \E i \in DOMAIN tr : InLog(i) /\ ~InRegistry(i)
        /\ tr[a].log # <<>> /\ Last(tr[a].log) = note
        /\ MapGet(tr[a].notes, detail.key) = note
        /\ tr[a].heap[note].key = detail.key

\* C14: in every state, the reaction to a KeyDown goes in this order: when
\* beforenoteon is dispatched the new Note is in neither the log nor the
\* registry; the log has the Note before the registry has it; when noteon is
\* dispatched the Note is the last entry of the log and the registry's entry
\* for its key.
C14_KeyDownOrder ==
    \A detail \in KeyDowns : KeyDownOrder(noteon_trace(Self, detail), detail)

\* C14's case: a KeyDown has been handled, its Note the last entry of the log
\* and registered, with an earlier Note in the log before it.
C14_Witness ==
    /\ Len(log) > 1
    /\ \E k \in DOMAIN notes : notes[k] = log[Len(log)]

\* What C15 says of tr, the run of the _noteoff listener on the present
\* state for the signal detail of a registered key.
KeyUpOrder(tr, detail) ==
    LET note == notes[detail.key]
        b == At(tr, "beforenoteoff")
        a == At(tr, "noteoff")
        IsFrozen(i) == ~Note_playing(tr[i].heap[note])
        InBuffer(i) == note \in Range(tr[i]._buffer)
        InRegistry(i) == MapGet(tr[i].notes, detail.key) = note
    IN  /\ Note_playing(heap[note]) /\ note \notin Range(_buffer)
        /\ \A i \in DOMAIN tr : InBuffer(i) => IsFrozen(i)
        /\ \E i \in DOMAIN tr : IsFrozen(i) /\ ~InBuffer(i)
        /\ \A i \in DOMAIN tr : i >= b => InBuffer(i)
        /\ \E i \in DOMAIN tr : i < b /\ InBuffer(i)
        /\ IsFrozen(b) /\ InBuffer(b) /\ InRegistry(b)
        /\ \A i \in DOMAIN tr : i <= b => InRegistry(i)
        /\ b < a
        /\ \E i \in DOMAIN tr : i < a /\ ~InRegistry(i)
        /\ ~MapHas(tr[a].notes, detail.key)
        /\ IsFrozen(a) /\ InBuffer(a)
        /\ tr[a]._buffer = Append(_buffer, note)

\* C15: in every state, the reaction to a KeyUp for a key with an active Note
\* goes in this order: freeze the duration, append the Note to the buffer,
\* dispatch beforenoteoff, remove the Note from the registry, dispatch
\* noteoff. When beforenoteoff is dispatched the Note is frozen, in the buffer
\* and still registered; when noteoff is dispatched its key is no longer in
\* the registry.
C15_KeyUpOrder ==
    \A detail \in KeyUps : \A t \in {now, now + 1} :
        MapHas(notes, detail.key) =>
            KeyUpOrder(noteoff_trace(Self, detail, t), detail)

\* C15's case: a KeyUp has been handled, its Note frozen, in the buffer, and
\* its key no longer in the registry, while another key is still registered.
C15_Witness ==
    \E n \in Range(_buffer) :
        /\ ~Note_playing(heap[n])
        /\ ~MapHas(notes, heap[n].key)
        /\ DOMAIN notes # {}

\* A Note that is playing and is not the registry's entry for its key: the
\* Note of an earlier KeyDown whose key got a second KeyDown before a KeyUp.
Orphan(n) ==
    /\ Note_playing(heap[n])
    /\ MapGet(notes, heap[n].key) # n

\* C16: after a second KeyDown for a key that has an active Note, the
\* registry's entry for the key is the second Note alone; the first Note
\* stays in the log and in no later step is frozen, registered again or put
\* in the buffer; and a KeyUp for the key freezes and buffers the registered
\* Note only.
C16_DuplicateKeyDown ==
    /\ [](\A n \in DOMAIN heap :
            Orphan(n) =>
                /\ n \in Range(log)
                /\ n \notin Range(_buffer)
                /\ n \notin Transmitted)
    /\ [][<<heap, notes>>' # <<heap, notes>> =>
            /\ \A n \in DOMAIN heap : Orphan(n) => Orphan(n)'
            /\ \A k \in DOMAIN notes :
                (Len(heap') > Len(heap) /\ heap'[Len(heap')].key = k) =>
                    /\ notes'[k] = Len(heap')
                    /\ \A n \in DOMAIN heap : notes[k] = n => Orphan(n)'
            /\ \A n \in Frozen(heap, heap') :
                /\ notes[heap[n].key] = n
                /\ Frozen(heap, heap') = {n}
                /\ _buffer' = Append(_buffer, n)
       ]_vars

\* C16's case: a key got two KeyDowns and then a KeyUp: its first Note is
\* still playing and unregistered, its second Note has been released.
C16_Witness ==
    \E n \in DOMAIN heap : \E n2 \in Range(released) :
        /\ Orphan(n)
        /\ n < n2
        /\ heap[n2].key = heap[n].key
        /\ ~MapHas(notes, heap[n].key)

\* The number of times a note is in a sequence of notes.
Count(seq, n) == Cardinality({i \in DOMAIN seq : seq[i] = n})

\* C17: a Note comes into the buffer at its release and at no other time:
\* the step that freezes it appends it to the buffer, once, and any other
\* note a step adds to the buffer comes back from an outstanding batch.
\* Every note in the buffer or in a transmitted batch is completed, and its
\* serialized duration is the frozen value whenever it is read. A step that
\* constructs a Note (a KeyDown), a tick that finds the buffer empty and a
\* step in which the sink accepts a batch add nothing to the buffer.
C17_BufferMembership ==
    /\ [](\A n \in Range(_buffer) \cup Transmitted :
            /\ ~Note_playing(heap[n])
            /\ \A t \in 0..MaxTime + 1 :
                toJSON(heap[n], t).duration = heap[n]._duration[1])
    /\ [][<<heap, _buffer, fetches>>' # <<heap, _buffer, fetches>> =>
            /\ \A n \in Range(_buffer) \cup Transmitted :
                heap'[n]._duration = heap[n]._duration
            /\ \A n \in Frozen(heap, heap') :
                Count(_buffer, n) = 0 /\ Count(_buffer', n) = 1
            /\ \A n \in Range(_buffer') \ Range(_buffer) :
                n \in Frozen(heap, heap') \/ Outstanding(n)
            /\ \A n \in Range(_buffer' \o Flatten(fetches')) :
                \/ InPending(n) \/ Outstanding(n)
                \/ n \in Frozen(heap, heap')
            /\ Len(heap') > Len(heap) => _buffer' = _buffer
            /\ (_buffer = <<>> /\ Tick) => _buffer' = <<>>
            /\ Len(sent') > Len(sent) => _buffer' = _buffer
       ]_vars

\* C17's case: a released note waits in the buffer, the clock having moved on
\* since its freeze, while a Note pressed later is still playing and in no
\* buffer.
C17_Witness ==
    /\ Len(_buffer) > 0
    /\ Len(sent) = 0 /\ Len(fetches) = 0
    /\ \E n \in DOMAIN heap : Note_playing(heap[n]) /\ n > _buffer[1]
    /\ now > heap[_buffer[1]].timestamp + heap[_buffer[1]]._duration[1]

\* C18: every step leaves the log of before as a prefix of the log of after;
\* each _noteon handled appends exactly one Note, at the end, so the log is in
\* the order of the presses and as long as the number of KeyDown signals
\* handled; a KeyUp, a tick and a transmission's outcome leave the log as it
\* is.
C18_LogAppendOnly ==
    [][/\ Len(log') >= Len(log)
       /\ SubSeq(log', 1, Len(log)) = log
       /\ Len(log') - Len(log) = keydowns' - keydowns
       /\ Len(log') = keydowns'
       /\ \A i, j \in DOMAIN log' :
            i < j => /\ log'[i] < log'[j]
                     /\ heap'[log'[i]].timestamp <= heap'[log'[j]].timestamp
       /\ keydowns' = keydowns => log' = log
      ]_vars

\* C18's case: the log holds two Notes in the order of their presses, the
\* first of them released and accepted by the sink since.
C18_Witness ==
    /\ Len(log) = 2
    /\ keydowns = 2
    /\ Delivered(log[1])
    /\ heap[log[1]].timestamp < heap[log[2]].timestamp

\* C19: however often initialize() is called and however the calls interleave
\* with the resolution of the access request, the midimessage listener is
\* attached to an input at most once and at most one flush timer runs.
C19_InitializeOnce ==
    /\ listeners <= 1
    /\ intervals <= 1

\* The raw messages the decoding is looked at for: those of Messages and the
\* two-byte messages, which have no velocity byte.
DecodeInputs == Messages \cup {<<s, k>> : s \in StatusBytes, k \in Keys}

\* C20: in every state, a midimessage listener dispatches a _noteoff only for
\* a raw message whose command is note-off, or note-on with velocity 0, and a
\* _noteon only for a note-on with a velocity other than 0, the signal's
\* velocity then being at least 1; for a raw message with any other command
\* it dispatches no signal and leaves the registry, the log, the buffer and
\* the Notes as they are, whatever the data bytes.
C20_SignalDecoding ==
    listeners > 0 =>
        \A data \in DecodeInputs :
            LET m == midimessage(Self, data, now, now)
                command == data[1] \div 16
            IN  /\ \A i \in DOMAIN m.signals :
                    /\ m.signals[i].type = "_noteoff" =>
                        \/ command = NOTE_OFF
                        \/ command = NOTE_ON /\ Velocity(data) = 0
                    /\ m.signals[i].type = "_noteon" =>
                        /\ command = NOTE_ON
                        /\ Velocity(data) # 0
                        /\ m.signals[i].velocity >= 1
                /\ command \notin {NOTE_OFF, NOTE_ON} =>
                    /\ m.signals = <<>>
                    /\ m.notes = notes
                    /\ m.log = log
                    /\ m._buffer = _buffer
                    /\ m.heap = heap

====
